---- MODULE Spec2Model ----
(***************************************************************************)
(* cpg-reducer: reduction of a code property graph (CPG).                  *)
(*                                                                         *)
(*   graph_remove_intra_edges  removes edges inside one file and the nodes *)
(*                             they leave without edges                    *)
(*   graph_merge_intra_nodes   builds one compartment node per file        *)
(*   graph_print_d3_arc        writes the graph as a d3 arc diagram (JSON) *)
(*   main                      reduce, merge (compartment mode), print     *)
(*                                                                         *)
(* The graph library (cgraph) is modelled by what its calls do: nodes and  *)
(* edges are handles ordered by creation sequence, agfstnode/agnxtnode and *)
(* agfstout/agnxtout walk them in that order, agdegree counts in- and      *)
(* out-edges, agdelete/agdelnode free the handle, agget returns what was   *)
(* stored and agset stores its value (the attributes "label" and "file"    *)
(* are taken to be declared in every graph, the merged one included).      *)
(* Strings are sequences of characters.  Every node of an input graph      *)
(* carries "file" and "label" (the asserts of the code never fire).        *)
(***************************************************************************)
EXTENDS Integers, Sequences, FiniteSets, TLC

\* Bounds of the input graphs.
MaxNodes == 3
MaxEdges == 2

NULL == 0
Q == "\""

\* Values of the "file" attribute: none, and two files.
NoFile == << >>
FileA == <<Q, "a", ".", "c", Q>>
FileB == <<Q, "b", ".", "c", Q>>
Files == {NoFile, FileA, FileB}

\* Values of the "label" attribute: a quoted name, or the empty default.
Letters == <<"A", "B", "C", "D", "E", "F">>
NodeLabel(i) == IF i = 3 THEN << >> ELSE <<Q, Letters[i], Q>>

\* Values of the "value" attribute: every second edge sets it, the others
\* have the default; a graph in which no edge sets it does not declare it.
EdgeValue(i) == IF i % 2 = 0 THEN <<"1">> ELSE << >>

VARIABLES
    g,          \* the input graph, mutated in place by the reducer
    orig,       \* the input graph as parsed
    pc,         \* position in main / graph_remove_intra_edges
    n,          \* reducer: current node
    nxtnode,    \* reducer: node to visit next
    e,          \* reducer: current out-edge
    nxtout,     \* reducer: out-edge to visit next
    isreduced,  \* reducer: an edge of n was removed
    freed,      \* handles released so far: [nodes, edges]
    fault,      \* operations applied to released handles or to nodes with edges
    pass,       \* number of the reducer run (1, or 2 when run again)
    first,      \* graph after the first run, when run again
    nodetype,   \* -n option: "function" or "compartment"
    cur,        \* main: the graph handed to the emitter
    stdout      \* everything written to standard output

vars == <<g, orig, pc, n, nxtnode, e, nxtout, isreduced, freed,
          fault, pass, first, nodetype, cur, stdout>>

Min(S) == CHOOSE x \in S : \A y \in S : x <= y

----------------------------------------------------------------------------
\* The graph library.

\* agfstnode(g)
AgFstNode(gr) == IF gr.nodes = {} THEN NULL ELSE Min(gr.nodes)

\* agnxtnode(g, n)
AgNxtNode(gr, x) ==
    LET later == {y \in gr.nodes : y > x}
    IN  IF later = {} THEN NULL ELSE Min(later)

\* agfstout(g, n)
AgFstOut(gr, x) ==
    LET out == {f \in gr.edges : gr.tail[f] = x}
    IN  IF out = {} THEN NULL ELSE Min(out)

\* agnxtout(g, e)
AgNxtOut(gr, f) ==
    LET later == {f2 \in gr.edges : gr.tail[f2] = gr.tail[f] /\ f2 > f}
    IN  IF later = {} THEN NULL ELSE Min(later)

\* agdegree(g, n, false, true): the in-edges are not counted.
AgDegreeOutOnly(gr, x) == Cardinality({f \in gr.edges : gr.tail[f] = x})

\* agdegree(g, n, true, true): a self-loop counts as an in- and an out-edge
AgDegree(gr, x) ==
    Cardinality({f \in gr.edges : gr.tail[f] = x})
      + Cardinality({f \in gr.edges : gr.head[f] = x})

\* agdelete(g, e)
AgDelete(gr, f) == [gr EXCEPT !.edges = @ \ {f}]

\* agdelnode(g, n): the node goes, with the edges still incident to it
AgDelNode(gr, x) ==
    [gr EXCEPT !.nodes = @ \ {x},
               !.edges = {f \in @ : gr.tail[f] # x /\ gr.head[f] # x}]

----------------------------------------------------------------------------
\* Input graphs: k nodes, each with a file, and up to MaxEdges edges
\* (self-loops and parallel edges included), in creation order.

EdgeLists(k) == UNION {[1..m -> (1..k) \X (1..k)] : m \in 0..MaxEdges}

InputGraph(k, file, el) ==
    [nodes |-> 1..k,
     edges |-> 1..Len(el),
     file  |-> file,
     label |-> [i \in 1..k |-> NodeLabel(i)],
     tail  |-> [i \in 1..Len(el) |-> el[i][1]],
     head  |-> [i \in 1..Len(el) |-> el[i][2]],
     hasValue |-> \E i \in 1..Len(el) : EdgeValue(i) # << >>,
     value |-> [i \in 1..Len(el) |-> EdgeValue(i)]]

\* No graph yet.
NoGraph ==
    [nodes |-> {}, edges |-> {}, file |-> << >>, label |-> << >>,
     tail |-> << >>, head |-> << >>, hasValue |-> FALSE, value |-> << >>]

Init ==
    /\ \E k \in 1..MaxNodes : \E file \in [1..k -> Files] :
         \E el \in EdgeLists(k) :
            g = InputGraph(k, file, el)
    /\ orig = g
    /\ pc = "outer"
    /\ n = AgFstNode(g)
    /\ nxtnode = NULL
    /\ e = NULL
    /\ nxtout = NULL
    /\ isreduced = FALSE
    /\ freed = [nodes |-> {}, edges |-> {}]
    /\ fault = {}
    /\ pass = 1
    /\ first = NoGraph
    /\ nodetype = "unset"
    /\ cur = NoGraph
    /\ stdout = << >>

----------------------------------------------------------------------------
\* graph_remove_intra_edges

\* The comparison of line 109 inverted (strcmp(...) == 0).
IsInterFileInverted(file_n, file_m) ==
    Len(file_n) = 0 \/ Len(file_m) = 0 \/ file_n = file_m

\* Lines 108-109: the edge stays when an endpoint has no file or the files differ.
IsInterFile(file_n, file_m) ==
    Len(file_n) = 0 \/ Len(file_m) = 0 \/ file_n # file_m

\* An operation of the library applied to a node or edge handle.
UseNode(op, x) == IF x \in freed.nodes THEN {<<op, "node", x>>} ELSE {}
UseEdge(op, f) == IF f \in freed.edges THEN {<<op, "edge", f>>} ELSE {}

\* agdelnode applied to node x of graph gr.
DelNodeFaults(gr, x) ==
    UseNode("agdelnode", x)
      \cup (IF x \in gr.nodes /\ AgDegree(gr, x) > 0
            THEN {<<"agdelnode", "has-edges", x>>} ELSE {})

\* Lines 136-137 without the test: the next node is always fetched anew.
NextAfterDeleteAlways(gr, nxt, m) ==
    IF nxt = NULL THEN NULL ELSE AgNxtNode(gr, nxt)

\* Lines 136-137: the node to visit next, when m is about to be removed.
NextAfterDelete(gr, nxt, m) == IF nxt = m THEN AgNxtNode(gr, nxt) ELSE nxt

\* Line 141 without the isreduced flag.
RemovesNodeUnflagged(isred, degree) == degree = 0

\* Line 141: n is removed when it lost an edge and has none left.
RemovesNode(isred, degree) == isred /\ degree = 0

\* Line 94, loop exit: every node was visited.
ReduceReturn ==
    /\ pc = "outer"
    /\ n = NULL
    /\ pc' = "reduced"
    /\ UNCHANGED <<g, orig, n, nxtnode, e, nxtout, isreduced, freed,
                   fault, pass, first, nodetype, cur, stdout>>

\* Lines 94-101: enter the body for node n and fetch its first out-edge.
ReduceNode ==
    /\ pc = "outer"
    /\ n # NULL
    /\ nxtnode' = AgNxtNode(g, n)
    /\ isreduced' = FALSE
    /\ e' = AgFstOut(g, n)
    /\ fault' = fault \cup UseNode("agnxtnode", n) \cup UseNode("agget", n)
                      \cup UseNode("agfstout", n)
    /\ pc' = "inner"
    /\ UNCHANGED <<g, orig, n, nxtout, freed, pass, first, nodetype,
                   cur, stdout>>

\* Lines 101-116: the edge is inter-file and is left alone.
ReduceKeepEdge ==
    /\ pc = "inner"
    /\ e # NULL
    /\ LET m == g.head[e]
       IN  /\ IsInterFile(g.file[n], g.file[m])
           /\ fault' = fault \cup UseEdge("agnxtout", e) \cup UseEdge("aghead", e)
                             \cup UseNode("agget", m)
    /\ nxtout' = AgNxtOut(g, e)
    /\ e' = nxtout'
    /\ UNCHANGED <<g, orig, pc, n, nxtnode, isreduced, freed, pass,
                   first, nodetype, cur, stdout>>

\* Lines 101-130: the edge is intra-file and is removed; its head keeps
\* other edges and stays.
ReduceRemoveEdge ==
    /\ pc = "inner"
    /\ e # NULL
    /\ LET m  == g.head[e]
           g1 == AgDelete(g, e)
       IN  /\ ~IsInterFile(g.file[n], g.file[m])
           /\ AgDegree(g1, m) > 0
           /\ g' = g1
           /\ fault' = fault \cup UseEdge("agnxtout", e) \cup UseEdge("aghead", e)
                             \cup UseNode("agget", m) \cup UseEdge("agdelete", e)
                             \cup UseNode("agdegree", m)
    /\ freed' = [freed EXCEPT !.edges = @ \cup {e}]
    /\ isreduced' = TRUE
    /\ nxtout' = AgNxtOut(g, e)
    /\ e' = nxtout'
    /\ UNCHANGED <<orig, pc, n, nxtnode, pass, first, nodetype, cur, stdout>>

\* Lines 101-139: the edge is intra-file and is removed; its head has no
\* edge left and is removed too.
ReduceRemoveHead ==
    /\ pc = "inner"
    /\ e # NULL
    /\ LET m  == g.head[e]
           g1 == AgDelete(g, e)
       IN  /\ ~IsInterFile(g.file[n], g.file[m])
           /\ AgDegree(g1, m) = 0
           /\ nxtnode' = NextAfterDelete(g1, nxtnode, m)
           /\ g' = AgDelNode(g1, m)
           /\ fault' = fault \cup UseEdge("agnxtout", e) \cup UseEdge("aghead", e)
                             \cup UseNode("agget", m) \cup UseEdge("agdelete", e)
                             \cup UseNode("agdegree", m)
                             \cup (IF nxtnode = m THEN UseNode("agnxtnode", nxtnode)
                                   ELSE {})
                             \cup DelNodeFaults(g1, m)
           /\ freed' = [nodes |-> freed.nodes \cup {m},
                        edges |-> freed.edges \cup {e}]
    /\ isreduced' = TRUE
    /\ nxtout' = AgNxtOut(g, e)
    /\ e' = nxtout'
    /\ UNCHANGED <<orig, pc, n, pass, first, nodetype, cur, stdout>>

\* Lines 141-151, n not removed: it lost no edge, or still has one.
ReduceKeepNode ==
    /\ pc = "inner"
    /\ e = NULL
    /\ ~isreduced \/ n \notin freed.nodes
    /\ ~RemovesNode(isreduced, AgDegree(g, n))
    /\ n' = nxtnode
    /\ pc' = "outer"
    /\ UNCHANGED <<g, orig, nxtnode, e, nxtout, isreduced, freed,
                   fault, pass, first, nodetype, cur, stdout>>

\* Lines 141-151: n lost an edge and has none left; it is removed.
ReduceRemoveNode ==
    /\ pc = "inner"
    /\ e = NULL
    /\ n \notin freed.nodes
    /\ RemovesNode(isreduced, AgDegree(g, n))
    /\ g' = AgDelNode(g, n)
    /\ fault' = fault \cup DelNodeFaults(g, n)
    /\ freed' = [freed EXCEPT !.nodes = @ \cup {n}]
    /\ n' = nxtnode
    /\ pc' = "outer"
    /\ UNCHANGED <<orig, nxtnode, e, nxtout, isreduced, pass, first,
                   nodetype, cur, stdout>>

\* Lines 141-151 when n was already removed at line 138 as the head of its
\* own self-loop: agdegree reads a released node and returns anything; when
\* it returns 0, agdelnode is given the released node and either finds no
\* such node in the graph and does nothing, or the process dies.
ReduceReleasedNode ==
    /\ pc = "inner"
    /\ e = NULL
    /\ isreduced
    /\ n \in freed.nodes
    /\ \E degree \in 0..1 : \E dies \in BOOLEAN :
         /\ fault' = fault \cup UseNode("agdegree", n)
                           \cup (IF RemovesNode(isreduced, degree)
                                 THEN DelNodeFaults(g, n) ELSE {})
         /\ IF RemovesNode(isreduced, degree) /\ dies
            THEN pc' = "crashed" /\ n' = n
            ELSE pc' = "outer" /\ n' = nxtnode
    /\ UNCHANGED <<g, orig, nxtnode, e, nxtout, isreduced, freed,
                   pass, first, nodetype, cur, stdout>>

----------------------------------------------------------------------------
\* Standard output: the sequence of pieces written by printf.

Tok(kind) == [k |-> kind, a |-> << >>, b |-> << >>, c |-> << >>]
Text3(kind, a, b, c) == [k |-> kind, a |-> a, b |-> b, c |-> c]
Comma == Tok(",")
Newline == Tok("\n")
None == <<"N", "O", "N", "E">>

\* printf("%.*s", prec, s + from): at most prec characters of s, from
\* offset from, up to the end of s.
PrintfPrec(s, from, prec) ==
    SubSeq(s, from + 1, IF from + prec < Len(s) THEN from + prec ELSE Len(s))

SeqRange(s) == {s[i] : i \in 1..Len(s)}

----------------------------------------------------------------------------
\* graph_merge_intra_nodes

\* Lines 185-187: the loop over the out-edges of a node fetches each edge
\* and creates nothing in h.
MergeOutEdges(gr, x, hedges) == hedges

\* Lines 174-183 without the lookup: every node creates a compartment.
MergeCompartmentNoLookup(acc, file_n) ==
    [acc EXCEPT !.comps = Append(@, file_n),
                !.out = Append(@, Text3("label-file", file_n, file_n, << >>))]

\* Lines 174-183 for a node with file file_n: the compartment is looked up
\* and, when absent, created, announced on standard output and recorded.
MergeCompartment(acc, file_n) ==
    IF file_n \in SeqRange(acc.comps)
    THEN acc
    ELSE [acc EXCEPT !.comps = Append(@, file_n),
                     !.out = Append(@, Text3("label-file", file_n, file_n, << >>))]

\* Lines 172-173: a node without file is skipped.
MergeSkips(file_n) == Len(file_n) = 0

\* Lines 167-188: the loop over the nodes of g, from node x on.
\* acc.comps: the files of the compartments created so far, in creation order.
RECURSIVE MergeNodes(_, _, _)
MergeNodes(gr, x, acc) ==
    IF x = NULL
    THEN acc
    ELSE LET nxt == AgNxtNode(gr, x)
             file_n == gr.file[x]
         IN  IF MergeSkips(file_n)
             THEN MergeNodes(gr, nxt, acc)
             ELSE LET acc1 == MergeCompartment(acc, file_n)
                  IN  MergeNodes(gr, nxt,
                          [acc1 EXCEPT !.edges = MergeOutEdges(gr, x, @)])

\* Lines 155-191: the graph h returned, and what was printed on the way.
\* Compartment i is the i-th node created in h; its name, label and file
\* are the file string.  An edge of h is a pair of compartments.
GraphMergeIntraNodes(gr) ==
    LET acc == MergeNodes(gr, AgFstNode(gr),
                          [comps |-> << >>, edges |-> << >>, out |-> << >>])
        k == Len(acc.comps)
        m == Len(acc.edges)
    IN  [h |-> [nodes |-> 1..k,
                edges |-> 1..m,
                file  |-> acc.comps,
                label |-> acc.comps,
                tail  |-> [i \in 1..m |-> acc.edges[i][1]],
                head  |-> [i \in 1..m |-> acc.edges[i][2]],
                hasValue |-> FALSE,
                value |-> [i \in 1..m |-> << >>]],
         out |-> acc.out]

----------------------------------------------------------------------------
\* graph_print_d3_arc

\* Lines 212-217: the "id" and "group" of a node entry.
NodeId(labeln) ==
    PrintfPrec(labeln, 1, IF Len(labeln) > 2 THEN Len(labeln) - 2 ELSE 0)
NodeGroup(file) ==
    PrintfPrec(file, 1, IF Len(file) > 4 THEN Len(file) - 4 ELSE 0)
      \o (IF Len(file) = 0 THEN None ELSE << >>)

\* Lines 238-243 with the lengths of line 215 (the file's) in place of the
\* label's.
LinkEndAsFile(label) ==
    PrintfPrec(label, 1, IF Len(label) > 4 THEN Len(label) - 4 ELSE 0)

\* Lines 238-243: "source" and "target" of a link entry.
LinkEnd(label) ==
    PrintfPrec(label, 1, IF Len(label) > 2 THEN Len(label) - 2 ELSE 0)

\* Line 243: the value of an edge, "" when the attribute is not there.
LinkValue(gr, f) == IF gr.hasValue THEN gr.value[f] ELSE << >>

\* Lines 218-219: a comma follows a node entry when another node follows.
NodeComma(nxt) == nxt # NULL

\* Lines 244-245: a comma follows a link entry when the node has another
\* out-edge or another node follows.
LinkComma(nxtedge, nxt) == nxtedge # NULL \/ nxt # NULL

\* Lines 204-221, from node x on.
RECURSIVE PrintNodes(_, _)
PrintNodes(gr, x) ==
    IF x = NULL
    THEN << >>
    ELSE LET nxt == AgNxtNode(gr, x)
         IN  <<Text3("node", NodeId(gr.label[x]), NodeGroup(gr.file[x]), << >>)>>
               \o (IF NodeComma(nxt) THEN <<Comma>> ELSE << >>)
               \o <<Newline>>
               \o PrintNodes(gr, nxt)

\* Lines 231-247 for node x, from its out-edge f on; nxt is the next node.
RECURSIVE PrintOut(_, _, _, _)
PrintOut(gr, x, f, nxt) ==
    IF f = NULL
    THEN << >>
    ELSE LET nxtedge == AgNxtOut(gr, f)
         IN  <<Text3("link", LinkEnd(gr.label[x]), LinkEnd(gr.label[gr.head[f]]),
                     LinkValue(gr, f))>>
               \o (IF LinkComma(nxtedge, nxt) THEN <<Comma>> ELSE << >>)
               \o <<Newline>>
               \o PrintOut(gr, x, nxtedge, nxt)

\* Lines 225-248, from node x on.
RECURSIVE PrintLinks(_, _)
PrintLinks(gr, x) ==
    IF x = NULL
    THEN << >>
    ELSE LET nxt == AgNxtNode(gr, x)
         IN  PrintOut(gr, x, AgFstOut(gr, x), nxt) \o PrintLinks(gr, nxt)

\* Lines 193-252: everything the emitter prints for graph gr.
GraphPrintD3Arc(gr) ==
    <<Tok("{\n"), Tok("nodes: [\n")>>
      \o PrintNodes(gr, AgFstNode(gr))
      \o <<Tok("],\n"), Tok("links: [\n")>>
      \o PrintLinks(gr, AgFstNode(gr))
      \o <<Tok("]\n"), Tok("}\n")>>

----------------------------------------------------------------------------
\* main, lines 298-316, for one input graph.

\* Lines 300-303 with -n compartment (the default): the merged graph is
\* the one printed.
MainCompartment ==
    /\ pc = "reduced"
    /\ pass = 1
    /\ nodetype' = "compartment"
    /\ LET r == GraphMergeIntraNodes(g)
       IN  /\ cur' = r.h
           /\ stdout' = stdout \o r.out
    /\ pc' = "emit"
    /\ UNCHANGED <<g, orig, n, nxtnode, e, nxtout, isreduced, freed,
                   fault, pass, first>>

\* Lines 300-307 with -n function: the reduced graph is the one printed.
MainFunction ==
    /\ pc = "reduced"
    /\ pass = 1
    /\ nodetype' = "function"
    /\ cur' = g
    /\ pc' = "emit"
    /\ UNCHANGED <<g, orig, n, nxtnode, e, nxtout, isreduced, freed,
                   fault, pass, first, stdout>>

\* Lines 308-311: the graph is printed.
MainPrint ==
    /\ pc = "emit"
    /\ stdout' = stdout \o GraphPrintD3Arc(cur)
    /\ pc' = "done"
    /\ UNCHANGED <<g, orig, n, nxtnode, e, nxtout, isreduced, freed,
                   fault, pass, first, nodetype, cur>>

Next ==
    \/ ReduceReturn
    \/ ReduceNode
    \/ ReduceKeepEdge
    \/ ReduceRemoveEdge
    \/ ReduceRemoveHead
    \/ ReduceKeepNode
    \/ ReduceRemoveNode
    \/ ReduceReleasedNode
    \/ MainCompartment
    \/ MainFunction
    \/ MainPrint

Spec == Init /\ [][Next]_vars

\* The reducer applied a second time to the graph it returned.
ReduceAgain ==
    /\ pc = "reduced"
    /\ pass = 1
    /\ pass' = 2
    /\ first' = g
    /\ n' = AgFstNode(g)
    /\ pc' = "outer"
    /\ UNCHANGED <<g, orig, nxtnode, e, nxtout, isreduced, freed,
                   fault, nodetype, cur, stdout>>

NextTwice ==
    \/ ReduceReturn
    \/ ReduceNode
    \/ ReduceKeepEdge
    \/ ReduceRemoveEdge
    \/ ReduceRemoveHead
    \/ ReduceKeepNode
    \/ ReduceRemoveNode
    \/ ReduceReleasedNode
    \/ ReduceAgain

SpecTwice == Init /\ [][NextTwice]_vars

----------------------------------------------------------------------------
\* Properties.

\* The reducer has returned (and main may have gone on).
Returned == pc \in {"reduced", "emit", "done"}

HasFile(gr, x) == Len(gr.file[x]) > 0
SameFile(gr, f) ==
    /\ HasFile(gr, gr.tail[f])
    /\ HasFile(gr, gr.head[f])
    /\ gr.file[gr.tail[f]] = gr.file[gr.head[f]]

\* C1: after graph_remove_intra_edges returns, no surviving edge connects
\* two nodes whose file values are equal and non-empty.
C1_NoIntraFileEdge ==
    Returned =>
        \A f \in g.edges :
            /\ g.tail[f] \in g.nodes
            /\ g.head[f] \in g.nodes
            /\ ~SameFile(g, f)

\* An intra-file edge was removed next to an inter-file edge that survives.
C1_Witness ==
    /\ pc = "reduced"
    /\ \E f \in freed.edges : SameFile(orig, f)
    /\ g.edges # {}

\* C2: the merged graph has an edge between the compartments of the
\* endpoints of every edge of the reduced graph whose endpoints both have
\* a file.
C2_EdgesRecreated ==
    (pc = "emit" /\ nodetype = "compartment") =>
        \A f \in g.edges :
            (HasFile(g, g.tail[f]) /\ HasFile(g, g.head[f])) =>
                \E hf \in cur.edges :
                    /\ cur.file[cur.tail[hf]] = g.file[g.tail[f]]
                    /\ cur.file[cur.head[hf]] = g.file[g.head[f]]

\* C3: a node without edges in the input graph is present after the
\* reducer returns, and a node is removed only after one of its edges was.
C3_AnomalyPreserved ==
    /\ \A x \in freed.nodes :
          \E f \in freed.edges : orig.tail[f] = x \/ orig.head[f] = x
    /\ Returned =>
          \A x \in orig.nodes : AgDegree(orig, x) = 0 => x \in g.nodes

\* The input had a node without edges and files, and the pass removed nodes.
C3_Witness ==
    /\ pc = "reduced"
    /\ \E x \in orig.nodes : AgDegree(orig, x) = 0 /\ HasFile(orig, x)
    /\ freed.nodes # {}

\* C4: a second run of the reducer on the result of the first removes no
\* edge and no node.
C4_Idempotent ==
    pass = 2 => (g.nodes = first.nodes /\ g.edges = first.edges)

\* The second run is over, after a first run that removed edges and nodes
\* and left some.
C4_Witness ==
    /\ pass = 2
    /\ pc = "reduced"
    /\ freed.edges # {}
    /\ freed.nodes # {}
    /\ g.edges # {}

\* The files of the nodes of a graph, the empty one excluded.
FilesOf(gr) == {gr.file[x] : x \in gr.nodes} \ {NoFile}

\* C5: the merged graph has exactly one compartment per distinct non-empty
\* file value of the nodes of g, keyed by the file string.
C5_MergeComplete ==
    (pc \in {"emit", "done"} /\ nodetype = "compartment") =>
        /\ {cur.file[i] : i \in cur.nodes} = FilesOf(g)
        /\ \A i, j \in cur.nodes : cur.file[i] = cur.file[j] => i = j
        /\ \A i \in cur.nodes : cur.label[i] = cur.file[i]
        /\ Cardinality(cur.nodes) <= Cardinality({g.file[x] : x \in g.nodes})

\* Two nodes of one file and a node without file were merged.
C5_Witness ==
    /\ pc = "emit"
    /\ nodetype = "compartment"
    /\ \E x, y \in g.nodes : x # y /\ HasFile(g, x) /\ g.file[x] = g.file[y]
    /\ \E x \in g.nodes : ~HasFile(g, x)
    /\ Cardinality(cur.nodes) = 1

IsNodeEntry(t) == t.k = "node"
IsLinkEntry(t) == t.k = "link"

\* The nodes of a graph, and its edges, in the order of the traversal.
RECURSIVE NodeOrder(_, _)
NodeOrder(gr, x) ==
    IF x = NULL THEN << >> ELSE <<x>> \o NodeOrder(gr, AgNxtNode(gr, x))
RECURSIVE OutOrder(_, _)
OutOrder(gr, f) ==
    IF f = NULL THEN << >> ELSE <<f>> \o OutOrder(gr, AgNxtOut(gr, f))
RECURSIVE EdgeOrder(_, _)
EdgeOrder(gr, x) ==
    IF x = NULL THEN << >>
    ELSE OutOrder(gr, AgFstOut(gr, x)) \o EdgeOrder(gr, AgNxtNode(gr, x))

\* A label without its first and last character.
Unquoted(label) ==
    IF Len(label) > 2 THEN [i \in 1..(Len(label) - 2) |-> label[i + 1]] ELSE << >>

\* C6: the document has one "nodes" entry per node and one "links" entry
\* per edge, in traversal order, and every source and target is the id of
\* a "nodes" entry.
C6_EmitterValid ==
    pc = "done" =>
        LET ns == SelectSeq(stdout, IsNodeEntry)
            ls == SelectSeq(stdout, IsLinkEntry)
            no == NodeOrder(cur, AgFstNode(cur))
            eo == EdgeOrder(cur, AgFstNode(cur))
            ids == {ns[i].a : i \in 1..Len(ns)}
        IN  /\ Len(ns) = Cardinality(cur.nodes)
            /\ Len(ls) = Cardinality(cur.edges)
            /\ \A i \in 1..Len(ns) : ns[i].a = Unquoted(cur.label[no[i]])
            /\ \A i \in 1..Len(ls) :
                  /\ ls[i].a = Unquoted(cur.label[cur.tail[eo[i]]])
                  /\ ls[i].b = Unquoted(cur.label[cur.head[eo[i]]])
                  /\ ls[i].a \in ids
                  /\ ls[i].b \in ids

\* A graph of two nodes with an edge from one to the other was printed.
C6_Witness ==
    /\ pc = "done"
    /\ Cardinality(cur.nodes) = 2
    /\ \E f \in cur.edges : cur.tail[f] # cur.head[f]

\* C7: a node with no file and no edges in the input graph is one entry of
\* "nodes" with group "NONE" in the final output, in both node modes.
C7_NoFileNodePrinted ==
    pc = "done" =>
        \A x \in orig.nodes :
            (~HasFile(orig, x) /\ AgDegree(orig, x) = 0) =>
                \E i \in 1..Len(stdout) :
                    /\ stdout[i].k = "node"
                    /\ stdout[i].a = Unquoted(orig.label[x])
                    /\ stdout[i].b = None

\* C8: the reducer removes a node only while it has no edges, removes no
\* node twice, and applies no library operation to a removed node or edge.
C8_DeletionSafe == fault = {}

NotNewline(t) == t.k # "\n"

\* The body of a JSON array: entries of one kind separated by commas.
ArrayBody(b, kind) ==
    /\ Len(b) = 0 \/ Len(b) % 2 = 1
    /\ \A i \in 1..Len(b) : b[i].k = (IF i % 2 = 1 THEN kind ELSE ",")

\* The output is one document {"nodes": [...], "links": [...]}.
WellFormed(out) ==
    LET d == SelectSeq(out, NotNewline)
    IN  /\ Len(d) >= 6
        /\ d[1].k = "{\n"
        /\ d[2].k = "nodes: [\n"
        /\ d[Len(d) - 1].k = "]\n"
        /\ d[Len(d)].k = "}\n"
        /\ \E i \in 3..(Len(d) - 3) :
              /\ d[i].k = "],\n"
              /\ d[i + 1].k = "links: [\n"
              /\ ArrayBody(SubSeq(d, 3, i - 1), "node")
              /\ ArrayBody(SubSeq(d, i + 2, Len(d) - 2), "link")

\* C9: standard output is exactly one well-formed JSON document, with a
\* comma after an entry exactly when another entry of the array follows.
C9_OneJsonDocument == pc = "done" => WellFormed(stdout)

\* C10: an edge whose endpoints have different files or a missing file is
\* still there after the pass, with both its nodes, and no attribute of a
\* node or an edge has changed.
C10_Frame ==
    /\ \A f \in orig.edges :
          ~SameFile(orig, f) =>
              /\ f \in g.edges
              /\ g.tail[f] = orig.tail[f] /\ g.tail[f] \in g.nodes
              /\ g.head[f] = orig.head[f] /\ g.head[f] \in g.nodes
    /\ g.file = orig.file
    /\ g.label = orig.label
    /\ g.value = orig.value
    /\ g.hasValue = orig.hasValue

\* The pass removed an edge and a node from a graph that has an inter-file
\* edge.
C10_Witness ==
    /\ pc = "reduced"
    /\ \E f \in orig.edges : ~SameFile(orig, f)
    /\ freed.edges # {}
    /\ freed.nodes # {}

====
